---- MODULE Spec2Model ----
(***************************************************************************)
(* A model of bevy_ascii_terminal's Terminal (src/src/terminal.rs): the    *)
(* tile buffer, its border, its clear tile and the operations that write   *)
(* and read tiles.  Positions are pairs <<x, y>>, sizes pairs <<w, h>>,    *)
(* the grid is the row-major function 0..w*h-1 -> Tile.  Around the        *)
(* terminal: the glyph atlas mapping (src/src/renderer/uv_mapping.rs) and  *)
(* the ToWorld component with the systems that refresh it                  *)
(* (src/src/to_world.rs).                                                  *)
(***************************************************************************)
EXTENDS Integers, Sequences, FiniteSets, TLC

\* ------------------------------------------------------------------ bounds
\* Largest width and height of a terminal the model constructs or resizes to.
MaxW == 2
MaxH == 2
\* Number of calls made on one terminal after its construction.
MaxSteps == 2
\* Longest text, in characters, passed to put_string.
MaxLen == 3
\* Longest glyph ordering a UV mapping is built from.
MaxGlyphs == 3
\* Number of host changes, system runs and conversion calls on one entity.
MaxFrameSteps == 3

VARIABLES
    tiles,            \* Terminal.tiles: Grid<Tile>, index y*width+x
    size,             \* Terminal.size: UVec2
    clear_tile,       \* Terminal.clear_tile
    border,           \* Terminal.border: Option<Border>
    overflow_checks,  \* build profile: TRUE = arithmetic overflow panics (debug)
    panicked,         \* the last call panicked: the program has failed
    last,             \* the last call made and its arguments
    steps,            \* calls made so far
    uv_map,           \* UvMapping.uv_map: HashMap<char, [[f32; 2]; 4]>
    to_world,         \* the ToWorld component of the terminal entity
    term_pos,         \* GlobalTransform::translation() of the terminal entity
    layout,           \* the TerminalLayout component of the terminal entity
    changed,          \* components of the terminal entity changed since update_from_terminal ran
    cameras,          \* the camera entities: transform, viewport, render target size, change flag
    handles,          \* Handle<UvMapping> of every terminal entity: the id of its mapping
    marked,           \* terminal entities whose TerminalLayout was set_changed()
    events            \* AssetEvent<UvMapping> not yet read

\* The Terminal component, the build profile and the record of calls.
term_vars == <<tiles, size, clear_tile, border, overflow_checks, panicked, last, steps>>

\* The components and resources around the terminal.
ecs_vars == <<uv_map, to_world, term_pos, layout, changed, cameras, handles, marked, events>>

vars == <<tiles, size, clear_tile, border, overflow_checks, panicked, last, steps,
          uv_map, to_world, term_pos, layout, changed, cameras, handles, marked, events>>

\* ------------------------------------------------------------------ values
None == "None"
Colors == {"WHITE", "BLACK", "BLUE", "RED"}
Glyphs == {"a", "q"}
Borders == {"single_line"}

\* impl Default for Tile
Tile_default == [glyph |-> " ", fg_color |-> "WHITE", bg_color |-> "BLACK"]

\* A tile that differs from the default one in every field.
Tile_custom == [glyph |-> ".", fg_color |-> "BLUE", bg_color |-> "RED"]

TileValues == {Tile_default, Tile_custom}

\* The formats a caller passes to put_char: a glyph, with or without colours.
CharFormats ==
    { [glyph |-> "a", fg |-> "BLUE", bg |-> "RED"],
      [glyph |-> "q", fg |-> None, bg |-> None],
      [glyph |-> "q", fg |-> "RED", bg |-> None],
      [glyph |-> "a", fg |-> None, bg |-> "BLUE"] }

\* The formats used in sequences of calls: both colours, none, one.
SeqCharFormats ==
    { [glyph |-> "a", fg |-> "BLUE", bg |-> "RED"],
      [glyph |-> "q", fg |-> None, bg |-> None],
      [glyph |-> "q", fg |-> None, bg |-> "BLUE"] }

\* ColorFormat::FgColor / ColorFormat::BgColor
ColorFormats == { [kind |-> "FgColor", col |-> "BLUE"], [kind |-> "BgColor", col |-> "RED"] }

Sizes == (1..MaxW) \X (1..MaxH)

\* Positions a caller may pass to a tile access: the tiles of the largest grid
\* and the positions just beyond its right and top edges.  For a smaller
\* terminal they lie inside it, or beyond its right or top edge.
Points == (0..MaxW) \X (0..MaxH)

\* ------------------------------------------------------------------ the grid
\* Grid::new(size): a grid of T::default()
Grid_new(sz) == [i \in 0..(sz[1] * sz[2] - 1) |-> Tile_default]

width == size[1]

height == size[2]

\* Terminal::in_bounds
in_bounds(xy) == xy[1] >= 0 /\ xy[2] >= 0 /\ xy[1] < width /\ xy[2] < height

\* The index without the row term.
transform_lti_no_row(xy) == xy[1]

\* Terminal::transform_lti: y as usize * width + x as usize.  The value is a
\* usize; it is represented by its signed residue, so a negative value stands
\* for one near 2^64, beyond every grid.
transform_lti(xy) == xy[2] * width + xy[1]

\* The usize arithmetic of transform_lti wrapped around: a negative coordinate
\* was cast to a value near 2^64 and the sum came back into the low range.
lti_overflows(xy) == (xy[1] < 0 \/ xy[2] < 0) /\ transform_lti(xy) >= 0

\* Terminal::get_tile / get_tile_mut panic: on the overflow in a build that
\* checks it, and on an index outside the vector.
get_tile_panics(xy) ==
    \/ overflow_checks /\ lti_overflows(xy)
    \/ transform_lti(xy) \notin DOMAIN tiles

\* Terminal::get_tile: the tile the index selects
get_tile(xy) == tiles[transform_lti(xy)]

\* Terminal::get_char
get_char(xy) == get_tile(xy).glyph

\* TileFormat::apply: the glyph and the colours that were supplied
TileFormat_apply(fmt, t) ==
    [glyph |-> fmt.glyph,
     fg_color |-> IF fmt.fg = None THEN t.fg_color ELSE fmt.fg,
     bg_color |-> IF fmt.bg = None THEN t.bg_color ELSE fmt.bg]

\* ------------------------------------------------------------------ border
\* Terminal::has_border
has_border == border # None

\* size_with_border that counts one border line per axis instead of two.
size_with_border_one ==
    IF has_border THEN <<size[1] + 1, size[2] + 1>> ELSE <<size[1] + 0, size[2] + 0>>

\* Terminal::size_with_border
size_with_border ==
    IF has_border THEN <<size[1] + 2, size[2] + 2>> ELSE <<size[1] + 0, size[2] + 0>>

\* Terminal::width_with_border
width_with_border == IF has_border THEN width + 2 ELSE width

\* Terminal::height_with_border
height_with_border == IF has_border THEN height + 2 ELSE height

\* ------------------------------------------------------------------ calls
NoCall ==
    [op |-> "new", xy |-> <<0, 0>>, fmt |-> [glyph |-> " ", fg |-> None, bg |-> None],
     tile |-> Tile_default, color |-> [kind |-> "FgColor", col |-> "WHITE"],
     sz |-> <<0, 0>>, border |-> None, ret |-> Tile_default,
     pivot |-> None, str |-> <<>>, n |-> 0, rstr |-> <<>>,
     glyph |-> " ", val |-> <<>>, tile_count |-> <<0, 0>>, ordering |-> <<>>]

\* The record of a call: sz keeps the size the terminal was constructed with or
\* last resized to.
Call == [NoCall EXCEPT !.sz = last.sz]

Running == ~panicked /\ steps < MaxSteps

\* Option<T>: None is the empty sequence, Some(v) the sequence of v alone.
Nothing == <<>>

Some(v) == <<v>>

\* A map without entries: HashMap::default(), an empty query.
EmptyMap == [k \in {} |-> None]

\* TerminalLayout::default(), as far as ToWorld reads it
Layout_default == [pivot |-> "Center", scaling |-> "World", pixels_per_tile |-> <<8, 8>>]

\* #[derive(Default)] for ToWorld
ToWorld_default ==
    [term_size |-> <<0, 0>>, term_pos |-> <<0, 0, 0>>, layout |-> Layout_default,
     camera_entity |-> Nothing, ndc_to_world |-> "IDENTITY", camera_pos |-> <<0, 0, 0>>,
     viewport_pos |-> <<0, 0>>, viewport_size |-> Nothing]

\* A terminal on its own: no mapping built, no entity spawned.
NoEcs ==
    /\ uv_map = EmptyMap
    /\ to_world = ToWorld_default
    /\ term_pos = <<0, 0, 0>>
    /\ layout = Layout_default
    /\ changed = {}
    /\ cameras = EmptyMap
    /\ handles = EmptyMap
    /\ marked = {}
    /\ events = <<>>

\* Terminal::new
new(sz) ==
    /\ tiles = Grid_new(sz)
    /\ size = sz
    /\ clear_tile = Tile_default
    /\ border = None

Init ==
    /\ \E sz \in Sizes : new(sz)
    /\ overflow_checks \in BOOLEAN
    /\ panicked = FALSE
    /\ last = [NoCall EXCEPT !.sz = size]
    /\ steps = 0
    /\ NoEcs

\* Terminal::clear: every tile becomes clear_tile
cleared(t) == [i \in DOMAIN tiles |-> t]

\* clear that fills with the default tile instead of clear_tile.
clear_to_default ==
    /\ Running
    /\ tiles' = cleared(Tile_default)
    /\ last' = [Call EXCEPT !.op = "clear"]
    /\ steps' = steps + 1
    /\ UNCHANGED <<size, clear_tile, border, overflow_checks, panicked>>

clear ==
    /\ Running
    /\ tiles' = cleared(clear_tile)
    /\ last' = [Call EXCEPT !.op = "clear"]
    /\ steps' = steps + 1
    /\ UNCHANGED <<size, clear_tile, border, overflow_checks, panicked>>

\* Terminal::with_clear_tile
with_clear_tile(t) ==
    /\ Running
    /\ clear_tile' = t
    /\ tiles' = cleared(t)
    /\ last' = [Call EXCEPT !.op = "with_clear_tile", !.tile = t]
    /\ steps' = steps + 1
    /\ UNCHANGED <<size, border, overflow_checks, panicked>>

\* Assignment to the public field Terminal.clear_tile
set_clear_tile(t) ==
    /\ Running
    /\ clear_tile' = t
    /\ last' = [Call EXCEPT !.op = "set_clear_tile", !.tile = t]
    /\ steps' = steps + 1
    /\ UNCHANGED <<tiles, size, border, overflow_checks, panicked>>

\* Terminal::with_border
with_border(b) ==
    /\ Running
    /\ border' = b
    /\ last' = [Call EXCEPT !.op = "with_border", !.border = b]
    /\ steps' = steps + 1
    /\ UNCHANGED <<tiles, size, clear_tile, overflow_checks, panicked>>

\* Terminal::set_border
set_border(b) ==
    /\ Running
    /\ border' = b
    /\ last' = [Call EXCEPT !.op = "set_border", !.border = b]
    /\ steps' = steps + 1
    /\ UNCHANGED <<tiles, size, clear_tile, overflow_checks, panicked>>

\* Terminal::remove_border
remove_border ==
    /\ Running
    /\ border' = None
    /\ last' = [Call EXCEPT !.op = "remove_border"]
    /\ steps' = steps + 1
    /\ UNCHANGED <<tiles, size, clear_tile, overflow_checks, panicked>>

\* Terminal::resize
resize(sz) ==
    /\ Running
    /\ tiles' = Grid_new(sz)
    /\ size' = sz
    /\ last' = [Call EXCEPT !.op = "resize", !.sz = sz]
    /\ steps' = steps + 1
    /\ UNCHANGED <<clear_tile, border, overflow_checks, panicked>>

\* A write through get_tile_mut(xy): the call panics or the selected tile becomes new_tile.
write_tile(xy, new_tile) ==
    IF get_tile_panics(xy)
    THEN /\ panicked' = TRUE
         /\ UNCHANGED tiles
    ELSE /\ tiles' = [tiles EXCEPT ![transform_lti(xy)] = new_tile]
         /\ UNCHANGED panicked

\* put_char as a full overwrite: a colour that was not supplied becomes the default one.
put_char_overwrite(xy, fmt) ==
    /\ Running
    /\ write_tile(xy, TileFormat_apply(fmt, Tile_default))
    /\ last' = [Call EXCEPT !.op = "put_char", !.xy = xy, !.fmt = fmt]
    /\ steps' = steps + 1
    /\ UNCHANGED <<size, clear_tile, border, overflow_checks>>

\* Terminal::put_char: writer.format().draw(xy, self)
put_char(xy, fmt) ==
    /\ Running
    /\ write_tile(xy, IF get_tile_panics(xy) THEN Tile_default
                      ELSE TileFormat_apply(fmt, get_tile(xy)))
    /\ last' = [Call EXCEPT !.op = "put_char", !.xy = xy, !.fmt = fmt]
    /\ steps' = steps + 1
    /\ UNCHANGED <<size, clear_tile, border, overflow_checks>>

\* Terminal::put_color
put_color(xy, color) ==
    /\ Running
    /\ write_tile(xy, IF get_tile_panics(xy) THEN Tile_default
                      ELSE IF color.kind = "FgColor"
                           THEN [get_tile(xy) EXCEPT !.fg_color = color.col]
                           ELSE [get_tile(xy) EXCEPT !.bg_color = color.col])
    /\ last' = [Call EXCEPT !.op = "put_color", !.xy = xy, !.color = color]
    /\ steps' = steps + 1
    /\ UNCHANGED <<size, clear_tile, border, overflow_checks>>

\* Terminal::put_tile
put_tile(xy, t) ==
    /\ Running
    /\ write_tile(xy, t)
    /\ last' = [Call EXCEPT !.op = "put_tile", !.xy = xy, !.tile = t]
    /\ steps' = steps + 1
    /\ UNCHANGED <<size, clear_tile, border, overflow_checks>>

\* A call of Terminal::get_tile or Terminal::get_tile_mut that only reads
read_tile(xy) ==
    /\ Running
    /\ panicked' = get_tile_panics(xy)
    /\ last' = [Call EXCEPT !.op = "get_tile", !.xy = xy,
                              !.ret = IF get_tile_panics(xy) THEN Tile_default ELSE get_tile(xy)]
    /\ steps' = steps + 1
    /\ UNCHANGED <<tiles, size, clear_tile, border, overflow_checks>>

\* A call of Terminal::get_char
read_char(xy) ==
    /\ Running
    /\ panicked' = get_tile_panics(xy)
    /\ last' = [Call EXCEPT !.op = "get_char", !.xy = xy,
                              !.ret = IF get_tile_panics(xy) THEN Tile_default
                                      ELSE [Tile_default EXCEPT !.glyph = get_char(xy)]]
    /\ steps' = steps + 1
    /\ UNCHANGED <<tiles, size, clear_tile, border, overflow_checks>>

\* ------------------------------------------------------------------ put_string
\* The nine pivots of sark_grids::Pivot
Pivots ==
    {"TopLeft", "TopCenter", "TopRight", "LeftCenter", "Center", "RightCenter",
     "BottomLeft", "BottomCenter", "BottomRight"}

\* Vec2::from(pivot), or Vec2::ZERO without a pivot, in halves: 0, 1, 2 for 0.0, 0.5, 1.0
pivot_vec2(p) ==
    <<IF p \in {"TopRight", "RightCenter", "BottomRight"} THEN 2
      ELSE IF p \in {"TopCenter", "Center", "BottomCenter"} THEN 1
      ELSE 0,
      IF p \in {"TopLeft", "TopCenter", "TopRight"} THEN 2
      ELSE IF p \in {"LeftCenter", "Center", "RightCenter"} THEN 1
      ELSE 0>>

\* The texts a caller may pass: characters and line breaks.
Chars == Glyphs \cup {"\n"}

Texts == UNION { [1..n -> Chars] : n \in 0..MaxLen }

\* The position of the first line break of s, or 0
RECURSIVE first_break(_, _)
first_break(s, k) ==
    IF k > Len(s) THEN 0
    ELSE IF s[k] = "\n" THEN k
    ELSE first_break(s, k + 1)

\* str::lines: the text between line breaks; the last line needs no line
\* break, and nothing follows a final line break.
RECURSIVE lines(_)
lines(s) ==
    IF s = <<>> THEN <<>>
    ELSE LET nl == first_break(s, 1)
         IN IF nl = 0 THEN <<s>>
            ELSE <<SubSeq(s, 1, nl - 1)>> \o lines(SubSeq(s, nl + 1, Len(s)))

\* `as i32` of an f32 given in halves: the fraction is dropped, towards zero
as_i32_halves(n2) == IF n2 >= 0 THEN n2 \div 2 ELSE -((-n2) \div 2)

\* The row rounded half away from zero instead of cut off.
string_y_rounded(origin_y, h, py2) ==
    LET n2 == 2 * origin_y + (h - 1) * (2 - py2)
    IN  IF n2 >= 0 THEN (n2 + 1) \div 2 ELSE -((1 - n2) \div 2)

\* let y = (origin.y as f32 + (h - 1) as f32 * (1.0 - pivot.y)) as i32
string_y(origin_y, h, py2) == as_i32_halves(2 * origin_y + (h - 1) * (2 - py2))

\* let len = line.chars().count().min(self.width())
line_len(line) == IF Len(line) < width THEN Len(line) ELSE width

\* The column offset taken from the whole length instead of len - 1.
line_x_whole_len(origin_x, len, px2) == origin_x - as_i32_halves(len * px2)

\* let x = origin.x - ((len - 1) as f32 * pivot.x) as i32, for len >= 1
line_x(origin_x, len, px2) == origin_x - as_i32_halves((len - 1) * px2)

\* StringFormat::apply: the colours that were supplied
StringFormat_apply(fmt, t) ==
    [t EXCEPT !.fg_color = IF fmt.fg = None THEN @ ELSE fmt.fg,
              !.bg_color = IF fmt.bg = None THEN @ ELSE fmt.bg]

\* for (char, t) in line.chars().zip(tiles): the tiles are those from index
\* i0 on, at most len of them, to the end of the grid
write_line(ts, line, i0, len, fmt) ==
    [i \in DOMAIN ts |->
        IF i >= i0 /\ i < i0 + len
        THEN StringFormat_apply(fmt, [ts[i] EXCEPT !.glyph = line[i - i0 + 1]])
        ELSE ts[i]]

\* The loop of put_string from line i (counted from 1) on; ts is the grid so
\* far.  The result is the grid and whether the loop panicked.
RECURSIVE draw_lines(_, _, _, _, _, _, _)
draw_lines(ts, ls, i, y0, origin_x, px2, fmt) ==
    LET y == y0 - (i - 1)
        len == line_len(ls[i])
        \* len - 1 is a usize: with len = 0 it panics where overflow is
        \* checked and is 2^64-1 elsewhere, which times pivot.x and cast to
        \* i32 is 0 for pivot.x = 0 and i32::MAX otherwise
        x == IF len = 0 THEN origin_x ELSE line_x(origin_x, len, px2)
        i0 == transform_lti(<<x, y>>)
    IN  IF i > Len(ls) THEN [tiles |-> ts, panicked |-> FALSE]
        ELSE IF y < 0 \/ y > height - 1 THEN [tiles |-> ts, panicked |-> FALSE]
        ELSE IF len = 0 /\ (overflow_checks \/ px2 > 0) THEN [tiles |-> ts, panicked |-> TRUE]
        ELSE IF overflow_checks /\ lti_overflows(<<x, y>>) THEN [tiles |-> ts, panicked |-> TRUE]
        ELSE IF i0 < 0 \/ i0 > width * height THEN [tiles |-> ts, panicked |-> TRUE]
        ELSE draw_lines(write_line(ts, ls[i], i0, len, fmt), ls, i + 1, y0, origin_x, px2, fmt)

\* Terminal::put_string.  origin is self.tiles.pivoted_point(xy): xy itself
\* without a pivot, the position the pivot resolves xy to otherwise.
put_string(origin, pivot, string, fmt) ==
    /\ Running
    /\ LET ls == lines(string)
           pv == pivot_vec2(pivot)
           r == draw_lines(tiles, ls, 1, string_y(origin[2], Len(ls), pv[2]), origin[1], pv[1], fmt)
       IN /\ tiles' = r.tiles
          /\ panicked' = r.panicked
    /\ last' = [Call EXCEPT !.op = "put_string", !.xy = origin, !.pivot = pivot,
                              !.str = string, !.fmt = fmt]
    /\ steps' = steps + 1
    /\ UNCHANGED <<size, clear_tile, border, overflow_checks>>

\* The glyphs read from the tile after index i on.
slice_glyphs_skip(i, len) ==
    LET m == IF len < width * height - i THEN len ELSE width * height - i
    IN  [k \in 1..m |-> IF i + k \in DOMAIN tiles THEN tiles[i + k].glyph ELSE " "]

\* self.tiles.slice()[i..].iter().take(len).map(|t| t.glyph): the glyphs of at
\* most len tiles from index i on, to the end of the grid
slice_glyphs(i, len) ==
    LET m == IF len < width * height - i THEN len ELSE width * height - i
    IN  [k \in 1..m |-> tiles[i + k - 1].glyph]

\* Terminal::get_string.  The slice [i..] panics for an index beyond the
\* length of the grid.
get_string(xy, len) ==
    /\ Running
    /\ LET i == transform_lti(xy)
           fails == (overflow_checks /\ lti_overflows(xy)) \/ i < 0 \/ i > width * height
       IN  /\ panicked' = fails
           /\ last' = [Call EXCEPT !.op = "get_string", !.xy = xy, !.n = len,
                                     !.rstr = IF fails THEN <<>> ELSE slice_glyphs(i, len)]
    /\ steps' = steps + 1
    /\ UNCHANGED <<tiles, size, clear_tile, border, overflow_checks>>

\* The colours a caller passes with a string
StringFormats ==
    { [glyph |-> " ", fg |-> None, bg |-> None], [glyph |-> " ", fg |-> "BLUE", bg |-> "RED"] }

\* Anchors of put_string: the grid, one ring around it and one more row above.
Origins == (-1..MaxW) \X (-1..(MaxH + 1))

\* ------------------------------------------------------------------ local and world space
\* Terminal::transform_ltw: pos - (size - 1) / 2
transform_ltw(pos) == <<pos[1] - (size[1] - 1) \div 2, pos[2] - (size[2] - 1) \div 2>>

\* Terminal::transform_wtl: pos + size / 2
transform_wtl(pos) == <<pos[1] + size[1] \div 2, pos[2] + size[2] \div 2>>

\* A call of Terminal::transform_ltw; from keeps the position the conversions started from
call_transform_ltw(pos, from) ==
    /\ Running
    /\ last' = [Call EXCEPT !.op = "transform_ltw", !.xy = from, !.val = transform_ltw(pos)]
    /\ steps' = steps + 1
    /\ UNCHANGED <<tiles, size, clear_tile, border, overflow_checks, panicked>>

\* A call of Terminal::transform_wtl
call_transform_wtl(pos, from) ==
    /\ Running
    /\ last' = [Call EXCEPT !.op = "transform_wtl", !.xy = from, !.val = transform_wtl(pos)]
    /\ steps' = steps + 1
    /\ UNCHANGED <<tiles, size, clear_tile, border, overflow_checks, panicked>>

\* A position is converted one way, and the result the other way.
NextLocalWorld ==
    /\ UNCHANGED ecs_vars
    /\ \/ steps = 0 /\ \E p \in Origins : call_transform_ltw(p, p)
       \/ steps = 0 /\ \E p \in Origins : call_transform_wtl(p, p)
       \/ steps = 1 /\ last.op = "transform_ltw" /\ call_transform_wtl(last.val, last.xy)
       \/ steps = 1 /\ last.op = "transform_wtl" /\ call_transform_ltw(last.val, last.xy)

SpecLocalWorld == Init /\ [][NextLocalWorld]_vars

\* ------------------------------------------------------------------ UvMapping
\* The f32 values of the UV computation, as fractions <<numerator, denominator>>.
FAdd(a, b) == <<a[1] * b[2] + b[1] * a[2], a[2] * b[2]>>

FMul(a, b) == <<a[1] * b[1], a[2] * b[2]>>

FEq(a, b) == a[1] * b[2] = b[1] * a[2]

\* Vec2 addition, component-wise product and equality.
V2Add(a, b) == <<FAdd(a[1], b[1]), FAdd(a[2], b[2])>>

V2Mul(a, b) == <<FMul(a[1], b[1]), FMul(a[2], b[2])>>

V2Eq(a, b) == FEq(a[1], b[1]) /\ FEq(a[2], b[2])

\* The corners in the order origin, origin+right, origin+up, origin+up+right.
get_grid_uvs_right_first(xy, tile_count) ==
    LET uv_size == << <<1, tile_count[1]>>, <<1, tile_count[2]>> >>
        right == <<uv_size[1], <<0, 1>> >>
        up == << <<0, 1>>, uv_size[2]>>
        origin == V2Mul(uv_size, << <<xy[1], 1>>, <<xy[2], 1>> >>)
    IN  <<origin, V2Add(origin, right), V2Add(origin, up), V2Add(V2Add(origin, up), right)>>

\* UvMapping::get_grid_uvs
get_grid_uvs(xy, tile_count) ==
    LET uv_size == << <<1, tile_count[1]>>, <<1, tile_count[2]>> >>
        right == <<uv_size[1], <<0, 1>> >>
        up == << <<0, 1>>, uv_size[2]>>
        origin == V2Mul(uv_size, << <<xy[1], 1>>, <<xy[2], 1>> >>)
    IN  <<origin, V2Add(origin, up), V2Add(origin, right), V2Add(V2Add(origin, up), right)>>

\* HashMap::insert
map_insert(m, k, v) == [j \in DOMAIN m \cup {k} |-> IF j = k THEN v ELSE m[j]]

\* The loop of UvMapping::from_grid from the k-th glyph (counted from 1) on;
\* its index is i = k - 1.
RECURSIVE from_grid_loop(_, _, _, _)
from_grid_loop(m, tile_count, iter, k) ==
    IF k > Len(iter) THEN m
    ELSE LET x == (k - 1) % tile_count[1]
             y == (k - 1) \div tile_count[1]
         IN  from_grid_loop(map_insert(m, iter[k], get_grid_uvs(<<x, y>>, tile_count)),
                            tile_count, iter, k + 1)

\* UvMapping::from_grid: the mapping asset is built
from_grid(tile_count, iter) ==
    /\ Running
    /\ uv_map' = from_grid_loop(EmptyMap, tile_count, iter, 1)
    /\ last' = [Call EXCEPT !.op = "from_grid", !.tile_count = tile_count, !.ordering = iter]
    /\ steps' = steps + 1
    /\ UNCHANGED <<tiles, size, clear_tile, border, overflow_checks, panicked>>
    /\ UNCHANGED <<to_world, term_pos, layout, changed, cameras, handles, marked, events>>

\* A lookup that answers a missing glyph with the quad of the first atlas cell.
uvs_from_glyph_fallback(ch) ==
    /\ Running
    /\ panicked' = FALSE
    /\ last' = [Call EXCEPT !.op = "uvs_from_glyph", !.glyph = ch,
                              !.tile_count = last.tile_count, !.ordering = last.ordering,
                              !.val = IF ch \in DOMAIN uv_map THEN Some(uv_map[ch])
                                      ELSE Some(get_grid_uvs(<<0, 0>>, last.tile_count))]
    /\ steps' = steps + 1
    /\ UNCHANGED <<tiles, size, clear_tile, border, overflow_checks>>
    /\ UNCHANGED ecs_vars

\* UvMapping::uvs_from_glyph: the quad of ch, or a panic
uvs_from_glyph(ch) ==
    /\ Running
    /\ panicked' = (ch \notin DOMAIN uv_map)
    /\ last' = [Call EXCEPT !.op = "uvs_from_glyph", !.glyph = ch,
                              !.tile_count = last.tile_count, !.ordering = last.ordering,
                              !.val = IF ch \in DOMAIN uv_map THEN Some(uv_map[ch])
                                      ELSE Nothing]
    /\ steps' = steps + 1
    /\ UNCHANGED <<tiles, size, clear_tile, border, overflow_checks>>
    /\ UNCHANGED ecs_vars

\* The glyphs of the orderings, and one more that a caller may look up.
AtlasGlyphs == {"a", "q", "."}

LookupGlyphs == AtlasGlyphs \cup {"#"}

\* The orderings a mapping is built from, with and without repeated glyphs.
Orderings == UNION { [1..n -> AtlasGlyphs] : n \in 0..MaxGlyphs }

\* Tile sheets of one cell, of two rows, of one row, and the code page sheet.
TileCounts == {<<1, 1>>, <<2, 2>>, <<3, 1>>, <<16, 16>>}

\* A mapping is built, then glyphs are looked up in it.
NextAtlas ==
    \/ /\ steps = 0
       /\ \E tile_count \in TileCounts, iter \in Orderings : from_grid(tile_count, iter)
    \/ /\ steps > 0
       /\ \E ch \in LookupGlyphs : uvs_from_glyph(ch)

\* One terminal of one tile; no mapping is built yet.
InitAtlas ==
    /\ new(<<1, 1>>)
    /\ overflow_checks \in BOOLEAN
    /\ panicked = FALSE
    /\ last = [NoCall EXCEPT !.sz = size]
    /\ steps = 0
    /\ NoEcs

SpecAtlas == InitAtlas /\ [][NextAtlas]_vars

\* ------------------------------------------------------------------ ToWorld
\* World positions are Vec3 <<x, y, z>>.  The values the conversions compute
\* are multiples of 0.5 (a size times a pivot): they are kept in halves,
\* <<2x, 2y>>, with z whole.
RunningEcs == ~panicked /\ steps < MaxFrameSteps

\* tile_to_world that takes the offset of the pivot from twice the size.
tile_to_world_double_offset(tile) ==
    LET pv == pivot_vec2(to_world.layout.pivot)
    IN  <<2 * tile[1] + 2 * to_world.term_pos[1] - 2 * to_world.term_size[1] * pv[1],
          2 * tile[2] + 2 * to_world.term_pos[2] - 2 * to_world.term_size[2] * pv[2],
          to_world.term_pos[3]>>

\* ToWorld::tile_to_world: tile + term_pos - term_size * pivot, in halves
tile_to_world(tile) ==
    LET pv == pivot_vec2(to_world.layout.pivot)
    IN  <<2 * tile[1] + 2 * to_world.term_pos[1] - to_world.term_size[1] * pv[1],
          2 * tile[2] + 2 * to_world.term_pos[2] - to_world.term_size[2] * pv[2],
          to_world.term_pos[3]>>

\* ToWorld::world_to_tile: floor(world - term_pos + term_size * pivot); world
\* is given in halves
world_to_tile(world) ==
    LET pv == pivot_vec2(to_world.layout.pivot)
    IN  <<(world[1] - 2 * to_world.term_pos[1] + to_world.term_size[1] * pv[1]) \div 2,
          (world[2] - 2 * to_world.term_pos[2] + to_world.term_size[2] * pv[2]) \div 2>>

\* ToWorld::world_unit: the size of a world unit under the TileScaling
world_unit ==
    IF to_world.layout.scaling = "World" THEN <<1, 1>>
    ELSE to_world.layout.pixels_per_tile

\* ToWorld::tile_center_to_world: tile_to_world(tile) + world_unit() / 2, in
\* halves (half a unit is the unit counted in halves)
tile_center_to_world(tile) ==
    <<tile_to_world(tile)[1] + world_unit[1],
      tile_to_world(tile)[2] + world_unit[2],
      tile_to_world(tile)[3]>>

\* A call of ToWorld::tile_center_to_world
call_tile_center_to_world(tile) ==
    /\ RunningEcs
    /\ last' = [Call EXCEPT !.op = "tile_center_to_world", !.xy = tile,
                              !.val = tile_center_to_world(tile)]
    /\ steps' = steps + 1
    /\ UNCHANGED <<tiles, size, clear_tile, border, overflow_checks, panicked>>
    /\ UNCHANGED ecs_vars

\* A call of ToWorld::tile_to_world
call_tile_to_world(tile) ==
    /\ RunningEcs
    /\ last' = [Call EXCEPT !.op = "tile_to_world", !.xy = tile, !.val = tile_to_world(tile)]
    /\ steps' = steps + 1
    /\ UNCHANGED <<tiles, size, clear_tile, border, overflow_checks, panicked>>
    /\ UNCHANGED ecs_vars

\* A call of ToWorld::world_to_tile with the x and y of a world position
call_world_to_tile(world) ==
    /\ RunningEcs
    /\ last' = [Call EXCEPT !.op = "world_to_tile", !.xy = last.xy,
                              !.val = world_to_tile(<<world[1], world[2]>>)]
    /\ steps' = steps + 1
    /\ UNCHANGED <<tiles, size, clear_tile, border, overflow_checks, panicked>>
    /\ UNCHANGED ecs_vars

\* The components the query filter of update_from_terminal names.
TerminalFilter == {"Terminal", "TerminalLayout"}

\* update_from_terminal with Changed<GlobalTransform> in its filter.
update_from_terminal_any_change ==
    /\ RunningEcs
    /\ to_world' = IF changed # {}
                   THEN [to_world EXCEPT !.term_size = size, !.layout = layout,
                                         !.term_pos = term_pos]
                   ELSE to_world
    /\ changed' = {}
    /\ last' = [Call EXCEPT !.op = "update_from_terminal"]
    /\ steps' = steps + 1
    /\ UNCHANGED <<tiles, size, clear_tile, border, overflow_checks, panicked>>
    /\ UNCHANGED <<uv_map, term_pos, layout, cameras, handles, marked, events>>

\* The system update_from_terminal: the entity is in the query when its
\* Terminal or its TerminalLayout changed since the system last ran.
update_from_terminal ==
    /\ RunningEcs
    /\ to_world' = IF changed \cap TerminalFilter # {}
                   THEN [to_world EXCEPT !.term_size = size, !.layout = layout,
                                         !.term_pos = term_pos]
                   ELSE to_world
    /\ changed' = {}
    /\ last' = [Call EXCEPT !.op = "update_from_terminal"]
    /\ steps' = steps + 1
    /\ UNCHANGED <<tiles, size, clear_tile, border, overflow_checks, panicked>>
    /\ UNCHANGED <<uv_map, term_pos, layout, cameras, handles, marked, events>>

\* The host moves the terminal entity: its GlobalTransform changes.
set_translation(pos) ==
    /\ RunningEcs
    /\ pos # term_pos
    /\ term_pos' = pos
    /\ changed' = changed \cup {"GlobalTransform"}
    /\ last' = [Call EXCEPT !.op = "set_translation"]
    /\ steps' = steps + 1
    /\ UNCHANGED <<tiles, size, clear_tile, border, overflow_checks, panicked>>
    /\ UNCHANGED <<uv_map, to_world, layout, cameras, handles, marked, events>>

\* The host writes the TerminalLayout component.
set_layout(l) ==
    /\ RunningEcs
    /\ layout' = l
    /\ changed' = changed \cup {"TerminalLayout"}
    /\ last' = [Call EXCEPT !.op = "set_layout"]
    /\ steps' = steps + 1
    /\ UNCHANGED <<tiles, size, clear_tile, border, overflow_checks, panicked>>
    /\ UNCHANGED <<uv_map, to_world, term_pos, cameras, handles, marked, events>>

\* The host resizes the Terminal component.
resize_component(sz) ==
    /\ RunningEcs
    /\ resize(sz)
    /\ changed' = changed \cup {"Terminal"}
    /\ UNCHANGED <<uv_map, to_world, term_pos, layout, cameras, handles, marked, events>>

\* World positions of a terminal entity.
WorldPositions == {<<0, 0, 0>>, <<-3, 2, 1>>, <<5, -1, 0>>}

\* Layouts: every pivot in both scaling modes.
Layouts ==
    { [pivot |-> p, scaling |-> sc, pixels_per_tile |-> <<8, 8>>] :
          p \in Pivots, sc \in {"World", "Pixels"} }

\* The layouts the host switches between.
SomeLayouts ==
    { Layout_default,
      [pivot |-> "BottomLeft", scaling |-> "World", pixels_per_tile |-> <<8, 8>>],
      [pivot |-> "TopRight", scaling |-> "Pixels", pixels_per_tile |-> <<8, 8>>] }

\* Tile positions passed to the conversions: the grid and one ring around it.
TilePoints == (-1..MaxW) \X (-1..MaxH)

\* A terminal entity that was just spawned with a ToWorld component: every
\* component counts as changed.
spawned(sz, pos, l) ==
    /\ new(sz)
    /\ overflow_checks = FALSE
    /\ panicked = FALSE
    /\ last = [NoCall EXCEPT !.sz = size]
    /\ steps = 0
    /\ uv_map = EmptyMap
    /\ to_world = ToWorld_default
    /\ term_pos = pos
    /\ layout = l
    /\ changed = {"Terminal", "TerminalLayout", "GlobalTransform"}
    /\ handles = EmptyMap
    /\ marked = {}
    /\ events = <<>>

InitConvert ==
    /\ \E sz \in Sizes, pos \in WorldPositions, l \in Layouts : spawned(sz, pos, l)
    /\ cameras = EmptyMap

\* The first frame refreshes the transform; then a tile position is converted
\* to a world position and that one back.
NextConvert ==
    \/ steps = 0 /\ update_from_terminal
    \/ steps = 1 /\ \E tile \in TilePoints : call_tile_to_world(tile)
    \/ steps = 2 /\ last.op = "tile_to_world" /\ call_world_to_tile(last.val)

SpecConvert == InitConvert /\ [][NextConvert]_vars

\* The first frame refreshes the transform; then the centre of a tile is
\* converted to a world position and that one back to a tile.
NextCenter ==
    \/ steps = 0 /\ update_from_terminal
    \/ steps = 1 /\ \E tile \in TilePoints : call_tile_center_to_world(tile)
    \/ steps = 2 /\ last.op = "tile_center_to_world" /\ call_world_to_tile(last.val)

SpecCenter == InitConvert /\ [][NextCenter]_vars

InitSync ==
    /\ \E sz \in Sizes : spawned(sz, <<0, 0, 0>>, Layout_default)
    /\ cameras = EmptyMap

\* Frames of a terminal entity: the host changes its components, the system runs.
NextSync ==
    \/ update_from_terminal
    \/ \E pos \in WorldPositions : set_translation(pos)
    \/ \E l \in SomeLayouts : set_layout(l)
    \/ \E sz \in Sizes : resize_component(sz)

SpecSync == InitSync /\ [][NextSync]_vars

\* ------------------------------------------------------------------ ToWorld and the camera
\* A camera entity: the translation of its GlobalTransform, Camera.viewport
\* (an Option of position and size), the size of the window, image or texture
\* view its Camera.target resolves to (an Option: None when it does not exist), and
\* whether Camera or GlobalTransform changed since update_from_camera ran.
CameraIds == {1, 2}

Viewport_some == [physical_position |-> <<4, 4>>, physical_size |-> <<32, 16>>]

TargetSize_some == <<64, 48>>

\* The cameras in the query of update_from_camera.
q_cam == {c \in DOMAIN cameras : cameras[c].changed}

\* t.compute_matrix() * cam.clip_from_view().inverse(): a matrix determined by
\* the camera's transform
ndc_to_world_of(c) == <<"ndc_to_world", cameras[c].pos>>

\* The body of the inner loop of update_from_camera for the bound camera c.
camera_fields(tw, c) ==
    [tw EXCEPT !.camera_pos = cameras[c].pos,
               !.ndc_to_world = ndc_to_world_of(c),
               !.viewport_pos = IF cameras[c].viewport # Nothing
                                THEN cameras[c].viewport[1].physical_position
                                ELSE <<0, 0>>,
               !.viewport_size = IF cameras[c].viewport # Nothing
                                 THEN Some(cameras[c].viewport[1].physical_size)
                                 ELSE cameras[c].target_size]

\* The body of the outer loop of update_from_camera: first is
\* q_cam.iter().next(), the binding is made when there is none, and the
\* fields are refreshed when the bound camera is in the query.
camera_pass_rebind(tw, first) ==
    camera_fields([tw EXCEPT !.camera_entity = Some(first)], first)

camera_pass(tw, first) ==
    LET bound == IF tw.camera_entity = Nothing THEN first ELSE tw.camera_entity[1]
    IN  IF bound \in q_cam
        THEN camera_fields([tw EXCEPT !.camera_entity = Some(bound)], bound)
        ELSE [tw EXCEPT !.camera_entity = Some(bound)]

\* The system update_from_camera.  The order in which the query yields the
\* cameras is not fixed: any camera of the query may be the first.
update_from_camera ==
    /\ RunningEcs
    /\ IF q_cam = {}
       THEN UNCHANGED to_world
       ELSE \E first \in q_cam : to_world' = camera_pass(to_world, first)
    /\ cameras' = [c \in DOMAIN cameras |-> [cameras[c] EXCEPT !.changed = FALSE]]
    /\ last' = [Call EXCEPT !.op = "update_from_camera", !.val = q_cam]
    /\ steps' = steps + 1
    /\ UNCHANGED <<tiles, size, clear_tile, border, overflow_checks, panicked>>
    /\ UNCHANGED <<uv_map, term_pos, layout, changed, handles, marked, events>>

\* screen_to_world that answers from the cached matrix without a viewport.
screen_to_world_always(screen_pos) ==
    /\ RunningEcs
    /\ last' = [Call EXCEPT !.op = "screen_to_world", !.xy = screen_pos,
                   !.val = Some([ndc_to_world |-> to_world.ndc_to_world,
                                 screen_pos |-> <<screen_pos[1] - to_world.viewport_pos[1],
                                                  screen_pos[2] - to_world.viewport_pos[2]>>,
                                 viewport_size |-> to_world.viewport_size])]
    /\ steps' = steps + 1
    /\ UNCHANGED <<tiles, size, clear_tile, border, overflow_checks, panicked>>
    /\ UNCHANGED ecs_vars

\* A call of ToWorld::screen_to_world: None without a viewport size, else
\* Some(point), the point being the projection by ndc_to_world of the screen
\* position relative to the viewport
screen_to_world(screen_pos) ==
    /\ RunningEcs
    /\ last' = [Call EXCEPT !.op = "screen_to_world", !.xy = screen_pos,
                   !.val = IF to_world.viewport_size = Nothing THEN Nothing
                           ELSE Some([ndc_to_world |-> to_world.ndc_to_world,
                                      screen_pos |-> <<screen_pos[1] - to_world.viewport_pos[1],
                                                       screen_pos[2] - to_world.viewport_pos[2]>>,
                                      viewport_size |-> to_world.viewport_size[1]])]
    /\ steps' = steps + 1
    /\ UNCHANGED <<tiles, size, clear_tile, border, overflow_checks, panicked>>
    /\ UNCHANGED ecs_vars

\* The host moves camera c.
move_camera(c, pos) ==
    /\ RunningEcs
    /\ pos # cameras[c].pos
    /\ cameras' = [cameras EXCEPT ![c].pos = pos, ![c].changed = TRUE]
    /\ last' = [Call EXCEPT !.op = "move_camera"]
    /\ steps' = steps + 1
    /\ UNCHANGED <<tiles, size, clear_tile, border, overflow_checks, panicked>>
    /\ UNCHANGED <<uv_map, to_world, term_pos, layout, changed, handles, marked, events>>

\* The host sets or removes Camera.viewport of camera c.
set_viewport(c, vp) ==
    /\ RunningEcs
    /\ cameras' = [cameras EXCEPT ![c].viewport = vp, ![c].changed = TRUE]
    /\ last' = [Call EXCEPT !.op = "set_viewport"]
    /\ steps' = steps + 1
    /\ UNCHANGED <<tiles, size, clear_tile, border, overflow_checks, panicked>>
    /\ UNCHANGED <<uv_map, to_world, term_pos, layout, changed, handles, marked, events>>

\* The host sets Camera.target of camera c to a target of size ts, or to one
\* that does not exist.
set_target(c, ts) ==
    /\ RunningEcs
    /\ cameras' = [cameras EXCEPT ![c].target_size = ts, ![c].changed = TRUE]
    /\ last' = [Call EXCEPT !.op = "set_target"]
    /\ steps' = steps + 1
    /\ UNCHANGED <<tiles, size, clear_tile, border, overflow_checks, panicked>>
    /\ UNCHANGED <<uv_map, to_world, term_pos, layout, changed, handles, marked, events>>

\* The cameras when the ToWorld component is added: without a viewport, their
\* target present or not, changed since the system ran or not.
InitCamera ==
    /\ spawned(<<1, 1>>, <<0, 0, 0>>, Layout_default)
    /\ cameras \in [CameraIds ->
                      [pos : {<<0, 0, 0>>}, viewport : {Nothing},
                       target_size : {Nothing, Some(TargetSize_some)}, changed : BOOLEAN]]

\* Frames of the cameras: the host changes them, the system runs, a screen
\* position is converted.
NextCamera ==
    \/ update_from_camera
    \/ screen_to_world(<<8, 8>>)
    \/ \E c \in CameraIds : move_camera(c, <<1, 1, 0>>)
    \/ \E c \in CameraIds, vp \in {Nothing, Some(Viewport_some)} : set_viewport(c, vp)
    \/ \E c \in CameraIds, ts \in {Nothing, Some(TargetSize_some)} : set_target(c, ts)

SpecCamera == InitCamera /\ [][NextCamera]_vars

\* ------------------------------------------------------------------ uv_mapping_loaded
\* Terminal entities with a Handle<UvMapping>, and the ids of mapping assets;
\* no terminal holds a handle to the mapping "C".
TermIds == {1, 2}

AssetIds == {"A", "B", "C"}

EventKinds == {"Added", "LoadedWithDependencies", "Modified", "Removed", "Unused"}

\* update_terminals(asset): the terminals whose handle has the id of the asset
update_terminals(id) == {t \in DOMAIN handles : handles[t] = id}

\* The loop over ev_mapping_loaded.read() from event k on; m is the set of
\* terminals whose TerminalLayout was set_changed() so far.
RECURSIVE read_events_modified_only(_, _)
read_events_modified_only(m, k) ==
    IF k > Len(events) THEN m
    ELSE read_events_modified_only(
             IF events[k].kind \in {"Added", "LoadedWithDependencies", "Modified"}
             THEN m \cup update_terminals(events[k].id) ELSE m, k + 1)

RECURSIVE read_events(_, _)
read_events(m, k) ==
    IF k > Len(events) THEN m
    ELSE read_events(
             IF events[k].kind \in EventKinds
             THEN m \cup update_terminals(events[k].id) ELSE m, k + 1)

\* The system uv_mapping_loaded: every event is read once.
uv_mapping_loaded ==
    /\ RunningEcs
    /\ marked' = read_events(marked, 1)
    /\ events' = <<>>
    /\ last' = [Call EXCEPT !.op = "uv_mapping_loaded", !.val = events]
    /\ steps' = steps + 1
    /\ UNCHANGED <<tiles, size, clear_tile, border, overflow_checks, panicked>>
    /\ UNCHANGED <<uv_map, to_world, term_pos, layout, changed, cameras, handles>>

\* The asset server reports an event on a mapping asset.
send_event(kind, id) ==
    /\ RunningEcs
    /\ events' = Append(events, [kind |-> kind, id |-> id])
    /\ last' = [Call EXCEPT !.op = "send_event"]
    /\ steps' = steps + 1
    /\ UNCHANGED <<tiles, size, clear_tile, border, overflow_checks, panicked>>
    /\ UNCHANGED <<uv_map, to_world, term_pos, layout, changed, cameras, handles, marked>>

\* The systems that consume the change of TerminalLayout have run.
layouts_consumed ==
    /\ RunningEcs
    /\ marked # {}
    /\ marked' = {}
    /\ last' = [Call EXCEPT !.op = "layouts_consumed"]
    /\ steps' = steps + 1
    /\ UNCHANGED <<tiles, size, clear_tile, border, overflow_checks, panicked>>
    /\ UNCHANGED <<uv_map, to_world, term_pos, layout, changed, cameras, handles, events>>

\* Two terminals, each with a handle to mapping "A" or "B"; no event yet.
InitMapping ==
    /\ new(<<1, 1>>)
    /\ overflow_checks = FALSE
    /\ panicked = FALSE
    /\ last = [NoCall EXCEPT !.sz = size]
    /\ steps = 0
    /\ uv_map = EmptyMap
    /\ to_world = ToWorld_default
    /\ term_pos = <<0, 0, 0>>
    /\ layout = Layout_default
    /\ changed = {}
    /\ cameras = EmptyMap
    /\ handles \in [TermIds -> {"A", "B"}]
    /\ marked = {}
    /\ events = <<>>

NextMapping ==
    \/ uv_mapping_loaded
    \/ \E kind \in EventKinds, id \in AssetIds : send_event(kind, id)
    \/ layouts_consumed

SpecMapping == InitMapping /\ [][NextMapping]_vars


\* The positions inside the current grid.
InBoundsPoints == (0..(width - 1)) \X (0..(height - 1))

\* Any sequence of calls on a terminal, at positions inside it.
Next ==
    /\ UNCHANGED ecs_vars
    /\ \/ clear
       \/ \E t \in TileValues : with_clear_tile(t)
       \/ \E t \in TileValues : set_clear_tile(t)
       \/ \E b \in Borders : with_border(b)
       \/ \E b \in Borders : set_border(b)
       \/ remove_border
       \/ \E sz \in Sizes : resize(sz)
       \/ \E xy \in InBoundsPoints, fmt \in SeqCharFormats : put_char(xy, fmt)
       \/ \E xy \in InBoundsPoints, c \in ColorFormats : put_color(xy, c)
       \/ \E xy \in InBoundsPoints : put_tile(xy, Tile_custom)
       \/ \E xy \in InBoundsPoints :
             put_string(xy, None, <<"a", "\n", "q">>, [glyph |-> " ", fg |-> None, bg |-> None])

Spec == Init /\ [][Next]_vars

\* One access to a tile of a new terminal, at any position, inside it or not.
NextAccess ==
    /\ steps = 0
    /\ UNCHANGED ecs_vars
    /\ \/ \E xy \in Points : read_tile(xy)
       \/ \E xy \in Points : read_char(xy)
       \/ \E xy \in Points, t \in TileValues : put_tile(xy, t)
       \/ \E xy \in Points, c \in ColorFormats : put_color(xy, c)
       \/ \E xy \in Points, fmt \in CharFormats : put_char(xy, fmt)

SpecAccess == Init /\ [][NextAccess]_vars

\* One put_string on a new terminal, for every anchor, pivot and text.
NextString ==
    /\ steps = 0
    /\ UNCHANGED ecs_vars
    /\ \E origin \in Origins, pivot \in Pivots \cup {None}, s \in Texts, fmt \in StringFormats :
          put_string(origin, pivot, s, fmt)

SpecString == Init /\ [][NextString]_vars

\* One put_string on a new terminal, anchored at a position inside it.
NextStringInside ==
    /\ steps = 0
    /\ UNCHANGED ecs_vars
    /\ \E origin \in InBoundsPoints, pivot \in Pivots \cup {None}, s \in Texts, fmt \in StringFormats :
          put_string(origin, pivot, s, fmt)

SpecStringInside == Init /\ [][NextStringInside]_vars

\* A put_string without a pivot at a position inside a new terminal, then a
\* get_string at any position of it.
NextRoundTrip ==
    /\ UNCHANGED ecs_vars
    /\ \/ /\ steps = 0
          /\ \E origin \in InBoundsPoints, s \in Texts, fmt \in StringFormats :
                put_string(origin, None, s, fmt)
       \/ /\ steps = 1
          /\ \E xy \in InBoundsPoints, len \in 0..MaxLen : get_string(xy, len)

SpecRoundTrip == Init /\ [][NextRoundTrip]_vars

\* ------------------------------------------------------------------ properties
\* The tile at position p of a row-major grid ts of width w (index = y*width + x).
TileAt(ts, w, p) == ts[p[2] * w + p[1]]

\* C1: put_char at an in-bounds position p changes the glyph of the tile at p
\* to the glyph given, replaces exactly the colours that were supplied, and
\* leaves the other colours of that tile and every other tile as they were.
C1_PutCharPartialUpdate ==
    [][ (last'.op = "put_char" /\ steps' = steps + 1 /\ last'.xy \in InBoundsPoints) =>
            LET p == last'.xy
                f == last'.fmt
                old == TileAt(tiles, width, p)
                now == TileAt(tiles', width, p)
            IN  /\ ~panicked'
                /\ size' = size
                /\ DOMAIN tiles' = DOMAIN tiles
                /\ now.glyph = f.glyph
                /\ now.fg_color = (IF f.fg = None THEN old.fg_color ELSE f.fg)
                /\ now.bg_color = (IF f.bg = None THEN old.bg_color ELSE f.bg)
                /\ \A q \in InBoundsPoints \ {p} :
                       TileAt(tiles', width, q) = TileAt(tiles, width, q)
      ]_vars

\* C1 witness: the tile written with 'a', fg BLUE, bg RED was written again
\* with 'q' and no colours, and holds 'q', BLUE, RED.
C1_Witness ==
    /\ last.op = "put_char"
    /\ ~panicked
    /\ last.xy \in InBoundsPoints
    /\ last.fmt = [glyph |-> "q", fg |-> None, bg |-> None]
    /\ TileAt(tiles, width, last.xy) = [glyph |-> "q", fg_color |-> "BLUE", bg_color |-> "RED"]

\* C2: after put_char(p, g) at an in-bounds p, get_char(p) returns g and
\* get_char(q) returns what it returned before for every other in-bounds q.
C2_PutGetRoundTrip ==
    [][ \A p \in Points :
          (last'.op = "put_char" /\ steps' = steps + 1 /\ last'.xy = p /\ p \in InBoundsPoints) =>
            /\ ~panicked'
            /\ ~(get_tile_panics(p))'
            /\ (get_char(p))' = last'.fmt.glyph
            /\ \A q \in InBoundsPoints \ {p} :
                   /\ ~(get_tile_panics(q))'
                   /\ (get_char(q))' = get_char(q)
      ]_vars

\* C2 witness: a put_char at an in-bounds position of a grid with more than
\* one row and column, after which that position reads the glyph and another
\* position reads a different glyph.
C2_Witness ==
    /\ last.op = "put_char"
    /\ ~panicked
    /\ last.xy \in InBoundsPoints
    /\ width > 1 /\ height > 1
    /\ last.xy[2] > 0
    /\ get_char(last.xy) = last.fmt.glyph
    /\ \E q \in InBoundsPoints : q # last.xy /\ get_char(q) # last.fmt.glyph

\* C3 (as claimed): after resize(sz) the size is sz and every tile equals the
\* current clear_tile.
C3_ResizeClearsToClearTile ==
    last.op = "resize" =>
        /\ size = last.sz
        /\ DOMAIN tiles = 0..(last.sz[1] * last.sz[2] - 1)
        /\ \A i \in DOMAIN tiles : tiles[i] = clear_tile

\* C4: after clear() every tile equals clear_tile, and clear() changes neither
\* the size nor the border (nor clear_tile).
C4_ClearFillsWithClearTile ==
    [][ (last'.op = "clear" /\ steps' = steps + 1) =>
            /\ \A p \in InBoundsPoints : TileAt(tiles', width, p) = clear_tile
            /\ DOMAIN tiles' = 0..(width * height - 1)
            /\ size' = size
            /\ border' = border
            /\ clear_tile' = clear_tile
            /\ ~panicked'
      ]_vars

\* C4 witness: clear() on a grid of several tiles whose clear_tile is not the
\* default tile; every tile is then the clear tile.
C4_Witness ==
    /\ last.op = "clear"
    /\ clear_tile # Tile_default
    /\ width * height > 1
    /\ \A i \in DOMAIN tiles : tiles[i] = clear_tile

\* C5 (as claimed): get_tile, get_char, put_tile and put_color at a position
\* that is not in bounds fail fast.
C5_OutOfBoundsFailsFast ==
    (last.op \in {"get_tile", "get_char", "put_tile", "put_color"} /\ ~in_bounds(last.xy))
        => panicked

\* C6: size_with_border is size without a border and size + (2,2) with one,
\* width_with_border and height_with_border are its components, and size is
\* the size the terminal was constructed with or last resized to.
C6_BorderSizing ==
    /\ size_with_border = (IF border = None THEN size ELSE <<size[1] + 2, size[2] + 2>>)
    /\ width_with_border = size_with_border[1]
    /\ height_with_border = size_with_border[2]
    /\ size = last.sz

\* C6 witness: a terminal with a border that was resized after the border was set.
C6_Witness ==
    /\ border # None
    /\ last.op = "resize"
    /\ size_with_border = <<size[1] + 2, size[2] + 2>>
    /\ size # <<1, 1>>

\* ------------------------------------------------------------------ put_string properties
\* A number given in halves rounded to an integer, half away from zero.
RoundHalfAway(n2) == IF n2 >= 0 THEN (n2 + 1) \div 2 ELSE -((1 - n2) \div 2)

\* A number given in halves cut off to an integer, towards zero.
TowardZero(n2) == IF n2 >= 0 THEN n2 \div 2 ELSE -((-n2) \div 2)

\* The placement a put_string call c = [xy: anchor, pivot, str] is said to
\* make in a grid of the current width and height.  ry and rx choose the
\* rounding of the row and of the column offset: TRUE rounds half away from
\* zero, FALSE cuts off towards zero.
PlLines(c) == lines(c.str)

PlY0(c, ry) ==
    LET h == Len(PlLines(c))
        py2 == pivot_vec2(c.pivot)[2]
    IN  IF ry THEN c.xy[2] + RoundHalfAway((h - 1) * (2 - py2))
        ELSE TowardZero(2 * c.xy[2] + (h - 1) * (2 - py2))

\* The row of line i (counted from 1).
PlRow(c, ry, i) == PlY0(c, ry) - (i - 1)

\* len = min(character count, width)
PlLen(c, i) == IF Len(PlLines(c)[i]) < width THEN Len(PlLines(c)[i]) ELSE width

\* x0 = a.x - round((len - 1) * px)
PlX0(c, rx, i) ==
    LET n2 == (PlLen(c, i) - 1) * pivot_vec2(c.pivot)[1]
    IN  c.xy[1] - (IF rx THEN RoundHalfAway(n2) ELSE TowardZero(n2))

\* Line i is processed: no line up to it has its row outside the grid.
PlReached(c, ry, i) == \A j \in 1..i : PlRow(c, ry, j) >= 0 /\ PlRow(c, ry, j) <= height - 1

\* Line i is not empty and starts inside its row.
PlStartsInside(c, rx, i) ==
    PlLen(c, i) >= 1 /\ PlX0(c, rx, i) >= 0 /\ PlX0(c, rx, i) <= width - 1

\* Lines 1..i are all processed and start inside their rows.
PlWritten(c, ry, rx, i) ==
    /\ i \in 1..Len(PlLines(c))
    /\ PlReached(c, ry, i)
    /\ \A j \in 1..i : PlStartsInside(c, rx, j)

\* The tile index of character k (counted from 0) of line i.
PlIndex(c, ry, rx, i, k) == PlRow(c, ry, i) * width + PlX0(c, rx, i) + k

\* The line after i is processed and its characters run over tile index idx
\* (they continue into the row above when they pass the end of their row).
PlNextCovers(c, ry, rx, i, idx) ==
    /\ i < Len(PlLines(c))
    /\ PlRow(c, ry, i + 1) >= 0
    /\ idx >= PlIndex(c, ry, rx, i + 1, 0)
    /\ idx < PlIndex(c, ry, rx, i + 1, 0) + PlLen(c, i + 1)

\* The first character of every written line is at column x0 of row y0 - i,
\* unless the next line ran over it.
PlRowsAsStated(c, ry, rx) ==
    \A i \in 1..Len(PlLines(c)) :
        (PlWritten(c, ry, rx, i) /\ ~PlNextCovers(c, ry, rx, i, PlIndex(c, ry, rx, i, 0))) =>
            TileAt(tiles', width, <<PlX0(c, rx, i), PlRow(c, ry, i)>>).glyph = PlLines(c)[i][1]

\* Character k of every written line is k tiles after the line's start, up
\* to the end of the grid, unless the next line ran over it.
PlColumnsAsStated(c, ry, rx) ==
    \A i \in 1..Len(PlLines(c)) :
        PlWritten(c, ry, rx, i) =>
            \A k \in 0..(PlLen(c, i) - 1) :
                (/\ PlIndex(c, ry, rx, i, k) < width * height
                 /\ ~PlNextCovers(c, ry, rx, i, PlIndex(c, ry, rx, i, k))) =>
                    tiles'[PlIndex(c, ry, rx, i, k)].glyph = PlLines(c)[i][k + 1]

IsPutString == last'.op = "put_string" /\ steps' = steps + 1

\* C7 (as claimed): the first line is written on row
\* a.y + round((h-1)*(1-py)), rounded half away from zero, and line i on row y0 - i.
C7_RowsRoundedHalfAway == [][ IsPutString => PlRowsAsStated(last', TRUE, FALSE) ]_vars

\* C7 (amended): the first line is written on row y0 = a.y + (h-1)*(1-py) cut
\* off towards zero (the `as i32` cast of the sum), and line i starts on row y0 - i.
C7_RowsCutOff == [][ IsPutString => PlRowsAsStated(last', FALSE, FALSE) ]_vars

\* C7 witness: a text of two lines with py = 0.5 anchored at [0,1] in a grid
\* of height 2: the offset 0.5 is cut off, the lines are on rows 1 and 0.
C7_Witness ==
    /\ last.op = "put_string"
    /\ ~panicked
    /\ last.str = <<"a", "\n", "q">>
    /\ last.pivot = "LeftCenter"
    /\ last.xy = <<0, 1>>
    /\ height = 2
    /\ TileAt(tiles, width, <<0, 1>>).glyph = "a"
    /\ TileAt(tiles, width, <<0, 0>>).glyph = "q"

\* C8 (as claimed): each line starts at column x0 = a.x - round((len-1)*px),
\* len = min(character count, width), rounded half away from zero.
C8_ColumnsRoundedHalfAway == [][ IsPutString => PlColumnsAsStated(last', FALSE, TRUE) ]_vars

\* C8 (amended): each line starts at column x0 = a.x - (len-1)*px cut off
\* towards zero, len = min(character count, width), and its characters follow.
C8_ColumnsCutOff == [][ IsPutString => PlColumnsAsStated(last', FALSE, FALSE) ]_vars

\* C8 witness: "aq" with px = 0.5 anchored at column 0 of a grid of width 2:
\* the offset 0.5 is cut off and the line is on columns 0 and 1.
C8_Witness ==
    /\ last.op = "put_string"
    /\ ~panicked
    /\ last.str = <<"a", "q">>
    /\ last.pivot = "Center"
    /\ last.xy = <<0, 0>>
    /\ width = 2
    /\ TileAt(tiles, width, <<0, 0>>).glyph = "a"
    /\ TileAt(tiles, width, <<1, 0>>).glyph = "q"

\* C9 (as claimed): processing stops at the first line whose row is outside
\* the grid, and the tiles of every row that received no line are unchanged.
C9_RowsWithoutLineUnchanged ==
    [][ IsPutString =>
            \A r \in 0..(height - 1) :
                (~\E i \in 1..Len(PlLines(last')) :
                      PlReached(last', FALSE, i) /\ PlRow(last', FALSE, i) = r) =>
                    \A x \in 0..(width - 1) :
                        TileAt(tiles', width, <<x, r>>) = TileAt(tiles, width, <<x, r>>)
      ]_vars

\* C10 (as claimed): put_string changes no tile outside columns
\* x0..x0+len-1 of the row of a line it wrote.
C10_LinesStayInTheirRow ==
    [][ IsPutString =>
            \A p \in InBoundsPoints :
                TileAt(tiles', width, p) # TileAt(tiles, width, p) =>
                    \E i \in 1..Len(PlLines(last')) :
                        /\ PlReached(last', FALSE, i)
                        /\ p[2] = PlRow(last', FALSE, i)
                        /\ p[1] >= PlX0(last', FALSE, i)
                        /\ p[1] <= PlX0(last', FALSE, i) + PlLen(last', i) - 1
      ]_vars

\* ------------------------------------------------------------------ get_string properties
\* s has no line break.
SingleLine(s) == \A k \in 1..Len(s) : s[k] # "\n"

\* C11: after put_string(p, s) of a single-line s without a pivot at an
\* in-bounds p, where s fits in the row from p, get_string(p, n) returns the
\* first n characters of s for every n <= length(s).
C11_PutGetStringRoundTrip ==
    [][ (/\ last.op = "put_string" /\ ~panicked
         /\ last'.op = "get_string" /\ steps' = steps + 1
         /\ last.pivot = None /\ SingleLine(last.str)
         /\ last.xy \in InBoundsPoints
         /\ last.xy[1] + Len(last.str) <= width
         /\ last'.xy = last.xy
         /\ last'.n <= Len(last.str)) =>
            /\ ~panicked'
            /\ last'.rstr = SubSeq(last.str, 1, last'.n)
      ]_vars

\* C11 witness: get_string([0, y], 2) after put_string([0, y], "aq") in a
\* grid of width 2 returned "aq".
C11_Witness ==
    /\ last.op = "get_string"
    /\ ~panicked
    /\ width = 2
    /\ last.xy[1] = 0
    /\ last.n = 2
    /\ last.rstr = <<"a", "q">>
    /\ TileAt(tiles, width, last.xy).glyph = "a"

\* ------------------------------------------------------------------ UvMapping properties
\* No glyph occurs twice in the ordering.
Distinct(o) == \A i, j \in 1..Len(o) : o[i] = o[j] => i = j

\* The quad of atlas cell <<x, y>> of a sheet of cols x rows cells: origin,
\* origin+up, origin+right, origin+up+right.
CellQuadIs(q, x, y, cols, rows) ==
    /\ V2Eq(q[1], << <<x, cols>>, <<y, rows>> >>)
    /\ V2Eq(q[2], << <<x, cols>>, <<y + 1, rows>> >>)
    /\ V2Eq(q[3], << <<x + 1, cols>>, <<y, rows>> >>)
    /\ V2Eq(q[4], << <<x + 1, cols>>, <<y + 1, rows>> >>)

\* C12: in a mapping built from an ordering of distinct glyphs over [cols,
\* rows], the glyph at index i maps to the quad of cell (i mod cols, i div
\* cols) with the corners origin, origin+up, origin+right, origin+up+right;
\* for [16,16] index 0 has origin (0,0) and opposite corner (1/16,1/16).
C12_AtlasUvFormula ==
    (last.op \in {"from_grid", "uvs_from_glyph"} /\ Distinct(last.ordering)) =>
        LET cols == last.tile_count[1]
            rows == last.tile_count[2]
        IN  /\ \A k \in 1..Len(last.ordering) :
                  /\ last.ordering[k] \in DOMAIN uv_map
                  /\ CellQuadIs(uv_map[last.ordering[k]], (k - 1) % cols, (k - 1) \div cols,
                                cols, rows)
            /\ (last.tile_count = <<16, 16>> /\ Len(last.ordering) >= 1) =>
                  /\ V2Eq(uv_map[last.ordering[1]][1], << <<0, 1>>, <<0, 1>> >>)
                  /\ V2Eq(uv_map[last.ordering[1]][4], << <<1, 16>>, <<1, 16>> >>)

\* C12 witness: a mapping of three distinct glyphs over [2,2]: the third
\* glyph is in cell (0,1), its quad starts at (0, 1/2) and ends at (1/2, 1).
C12_Witness ==
    /\ last.op = "from_grid"
    /\ last.tile_count = <<2, 2>>
    /\ last.ordering = <<"a", "q", ".">>
    /\ V2Eq(uv_map["."][1], << <<0, 1>>, <<1, 2>> >>)
    /\ V2Eq(uv_map["."][4], << <<1, 2>>, <<1, 1>> >>)

\* A glyph of the build ordering.
InOrdering(g, o) == \E k \in 1..Len(o) : o[k] = g

\* C13 (as claimed): the lookup of a glyph that was not in the ordering is
\* answered with a recoverable MissingGlyphError, never with a quad; the
\* lookup of a glyph of the ordering succeeds.
C13_MissingGlyphRecoverable ==
    last.op = "uvs_from_glyph" =>
        IF InOrdering(last.glyph, last.ordering)
        THEN ~panicked /\ last.val = Some(uv_map[last.glyph])
        ELSE ~panicked /\ last.val = Some("MissingGlyphError")

\* C13 (amended): the lookup of a glyph that was not in the ordering panics
\* and returns no quad; the lookup of a glyph of the ordering succeeds and
\* returns the quad of the mapping.
C13_MissingGlyphPanics ==
    last.op = "uvs_from_glyph" =>
        IF InOrdering(last.glyph, last.ordering)
        THEN ~panicked /\ last.val = Some(uv_map[last.glyph])
        ELSE panicked /\ last.val = Nothing

\* C13 witness: a mapping with entries was asked for a glyph it does not
\* hold and the lookup panicked.
C13_Witness ==
    /\ last.op = "uvs_from_glyph"
    /\ Len(last.ordering) >= 2
    /\ ~InOrdering(last.glyph, last.ordering)
    /\ panicked
    /\ last.val = Nothing

\* ------------------------------------------------------------------ ToWorld properties
\* C14: for every cached transform (size, whole world position, pivot) and
\* every tile position p inside the buffer, world_to_tile(tile_to_world(p)) = p.
C14_TransformInverse ==
    /\ \A p \in (0..(to_world.term_size[1] - 1)) \X (0..(to_world.term_size[2] - 1)) :
           world_to_tile(tile_to_world(p)) = p
    /\ last.op = "world_to_tile" => last.val = last.xy

\* C14 witness: a tile of a terminal of odd width with a centred pivot, away
\* from the world origin, was converted to a world position between two
\* whole numbers and back to itself.
C14_Witness ==
    /\ last.op = "world_to_tile"
    /\ to_world.layout.pivot = "Center"
    /\ to_world.term_size = <<1, 2>>
    /\ to_world.term_pos = <<-3, 2, 1>>
    /\ last.xy = <<0, 1>>
    /\ tile_to_world(last.xy) = <<-7, 4, 1>>
    /\ last.val = <<0, 1>>

\* C16 (as claimed): after every run of update_from_terminal the cached
\* term_size, term_pos and layout are the terminal's current size, world
\* position and layout, also when the world position is all that changed.
C16_RefreshOnEveryChange ==
    last.op = "update_from_terminal" =>
        /\ to_world.term_size = size
        /\ to_world.term_pos = term_pos
        /\ to_world.layout = layout

\* C15: screen_to_world returns None - and does not fail - whenever no
\* viewport size is resolved, in particular as long as no update_from_camera
\* has processed a bound camera, and returns Some whenever viewport_size is
\* resolved.
C15_ScreenToWorldAbsent ==
    /\ to_world.camera_entity = Nothing => to_world.viewport_size = Nothing
    /\ last.op = "screen_to_world" =>
          /\ ~panicked
          /\ (to_world.viewport_size = Nothing) <=> (last.val = Nothing)

\* C15 witness: update_from_camera has bound a camera that has no viewport
\* and whose render target does not exist: no viewport size is resolved and
\* screen_to_world returned None.
C15_Witness ==
    /\ last.op = "screen_to_world"
    /\ ~panicked
    /\ to_world.camera_entity # Nothing
    /\ cameras[to_world.camera_entity[1]].target_size = Nothing
    /\ to_world.viewport_size = Nothing
    /\ last.val = Nothing

\* A run of update_from_camera.
IsCameraUpdate == last'.op = "update_from_camera" /\ steps' = steps + 1

\* C20: once camera_entity is set no update_from_camera changes it; a run in
\* which the bound camera is not among the changed cameras leaves camera_pos,
\* ndc_to_world, viewport_pos and viewport_size unchanged; a run without a
\* changed camera binds nothing and changes nothing.
C20_CameraBindingSticky ==
    [][ IsCameraUpdate =>
          /\ to_world.camera_entity # Nothing =>
                to_world'.camera_entity = to_world.camera_entity
          /\ (to_world.camera_entity # Nothing /\ to_world.camera_entity[1] \notin q_cam) =>
                /\ to_world'.camera_pos = to_world.camera_pos
                /\ to_world'.ndc_to_world = to_world.ndc_to_world
                /\ to_world'.viewport_pos = to_world.viewport_pos
                /\ to_world'.viewport_size = to_world.viewport_size
          /\ q_cam = {} => to_world' = to_world
          /\ to_world'.camera_entity # Nothing =>
                to_world.camera_entity # Nothing \/ q_cam # {}
      ]_vars

\* C20 witness: the transform is bound to one camera, the last run of
\* update_from_camera saw only the other camera changed, and the cached
\* camera position is still the bound camera's old one.
C20_Witness ==
    /\ last.op = "update_from_camera"
    /\ to_world.camera_entity # Nothing
    /\ last.val # {}
    /\ to_world.camera_entity[1] \notin last.val
    /\ \E c \in last.val : cameras[c].pos # to_world.camera_pos

\* ------------------------------------------------------------------ uv_mapping_loaded properties
\* C17: for every asset event (of any of the five kinds) on a mapping with id
\* A, a run of uv_mapping_loaded marks the layout of every terminal whose
\* handle has id A as changed, and it marks no terminal whose mapping had no event.
C17_MappingEventMarksItsTerminals ==
    [][ (last'.op = "uv_mapping_loaded" /\ steps' = steps + 1) =>
          /\ \A k \in 1..Len(events) : \A t \in TermIds :
                 handles[t] = events[k].id => t \in marked'
          /\ \A t \in marked' \ marked :
                 \E k \in 1..Len(events) : events[k].id = handles[t]
          /\ events' = <<>>
      ]_vars

\* C17 witness: the terminals are bound to different mappings, a Removed
\* event on the mapping of terminal 1 was read, and terminal 1 alone is marked.
C17_Witness ==
    /\ last.op = "uv_mapping_loaded"
    /\ handles[1] = "A" /\ handles[2] = "B"
    /\ last.val = <<[kind |-> "Removed", id |-> "A"]>>
    /\ marked = {1}
    /\ events = <<>>

\* ------------------------------------------------------------------ local and world space properties
\* C18 (as claimed): for every size and every position p,
\* transform_wtl(transform_ltw(p)) = p and transform_ltw(transform_wtl(p)) = p.
C18_LocalWorldInverse ==
    (last.op \in {"transform_ltw", "transform_wtl"} /\ steps = 2) => last.val = last.xy

\* ------------------------------------------------------------------ put_string with empty lines
\* Every line of the call has its row in the grid, and every line that is
\* not empty starts inside its row.
PlAllRowsInside(c) ==
    \A i \in 1..Len(PlLines(c)) :
        /\ PlRow(c, FALSE, i) >= 0 /\ PlRow(c, FALSE, i) <= height - 1
        /\ PlLen(c, i) >= 1 => PlX0(c, FALSE, i) >= 0 /\ PlX0(c, FALSE, i) <= width - 1

\* C19 (as claimed): put_string does not fail for a text whose rows are in
\* the grid, empty lines included: an empty line writes nothing, the lines
\* after it are written on their rows, and the empty string writes no tile.
C19_EmptyLinesAreHarmless ==
    [][ (IsPutString /\ PlAllRowsInside(last')) =>
          /\ ~panicked'
          /\ last'.str = <<>> => tiles' = tiles
          /\ \A i \in 1..Len(PlLines(last')) :
                 (/\ PlLen(last', i) >= 1
                  /\ ~PlNextCovers(last', FALSE, FALSE, i, PlIndex(last', FALSE, FALSE, i, 0))) =>
                     TileAt(tiles', width, <<PlX0(last', FALSE, i), PlRow(last', FALSE, i)>>).glyph
                         = PlLines(last')[i][1]
      ]_vars

\* ------------------------------------------------------------------ tile centres
\* C21 (as claimed): in both scaling modes the world position of the centre
\* of a tile lies in that tile: world_to_tile(tile_center_to_world(p)) = p for
\* every tile position p, with world_unit() = (1,1) in World scaling and
\* pixels_per_tile in Pixels scaling.
C21_TileCenterInsideTile ==
    /\ world_unit = (IF to_world.layout.scaling = "World" THEN <<1, 1>>
                     ELSE to_world.layout.pixels_per_tile)
    /\ \A p \in TilePoints :
           steps >= 1 => world_to_tile(tile_center_to_world(p)) = p
    /\ (last.op = "world_to_tile" /\ steps = 3) => last.val = last.xy

====
